---- MODULE Spec2Model ----
(***************************************************************************)
(* Star Wars API demo client: the cached fetcher (fetchFromApi), the       *)
(* orchestrator (fetchAndDisplayStarWarsData), the display functions and   *)
(* the /api route of the demo server, as one state machine.                *)
(*                                                                         *)
(* JavaScript runs one callback at a time.  A callback started by the      *)
(* event loop (an incoming /api request, or an event of an outgoing        *)
(* request) runs to its end, and the promise continuations it has made     *)
(* ready run right after it, before the event loop starts another          *)
(* callback.  The variable turn names the run whose continuation holds     *)
(* the thread; 0 means the thread is back in the event loop.               *)
(***************************************************************************)
EXTENDS Integers, Sequences, FiniteSets, TLC

(* ------------------------------ bounds -------------------------------- *)
\* /api requests served in one behaviour; any number of them may overlap
MaxRuns == 2
\* the runs a warmed-up process has behind it (InitWarm)
WarmRuns == 3

(* ------------------------- program constants -------------------------- *)
HTTP_ERROR_THRESHOLD == 400
MAX_STARSHIPS_DISPLAYED == 3
MIN_POPULATION == 1000000000
MIN_DIAMETER == 10000
MAX_VEHICLE_CHARACTER_ID == 4

\* the activation of the r-th /api request lives in slot r
Slots == 1..MaxRuns

(* ------------------------------ JSON ---------------------------------- *)
\* Parsed JSON values, tagged with their JavaScript type.
JNull == [t |-> "null"]
JUndefined == [t |-> "undefined"]
JBool(b) == [t |-> "boolean", v |-> b]
JNum(n) == [t |-> "number", v |-> n]
JStr(s) == [t |-> "string", v |-> s]
JArr(a) == [t |-> "array", v |-> a]
JObj(f) == [t |-> "object", v |-> f]

\* the run holds no payload
Nothing == [t |-> "nothing"]

\* JavaScript truthiness, the test `if (apiCache[resourcePath])` applies.
Truthy(x) ==
    CASE x.t = "undefined" -> FALSE
      [] x.t = "null" -> FALSE
      [] x.t = "boolean" -> x.v
      [] x.t = "number" -> x.v # 0
      [] x.t = "string" -> x.v # ""
      [] OTHER -> TRUE

\* x.key : a TypeError on null and undefined, undefined where there is no
\* such own property (only objects carry properties in this model).
CanRead(x) == x.t \notin {"null", "undefined"}
Prop(x, key) ==
    IF x.t = "object" /\ key \in DOMAIN x.v THEN x.v[key] ELSE JUndefined

\* number of decimal digits of a natural number
RECURSIVE Digits(_)
Digits(n) == IF n < 10 THEN 1 ELSE 1 + Digits(n \div 10)

RECURSIVE SumOver(_, _)
SumOver(S, f) ==
    IF S = {} THEN 0
    ELSE LET x == CHOOSE y \in S : TRUE
         IN  f[x] + SumOver(S \ {x}, f)

\* JSON.stringify(x).length for a parsed JSON value (no escapes needed in
\* the strings of this model, no whitespace is emitted).
RECURSIVE StringifyLength(_)
StringifyLength(x) ==
    CASE x.t = "null" -> 4
      [] x.t = "boolean" -> IF x.v THEN 4 ELSE 5
      [] x.t = "number" -> Digits(x.v)
      [] x.t = "string" -> Len(x.v) + 2
      [] x.t = "array" ->
            2 + SumOver(DOMAIN x.v, [i \in DOMAIN x.v |-> StringifyLength(x.v[i])])
              + (IF Len(x.v) > 1 THEN Len(x.v) - 1 ELSE 0)
      [] x.t = "object" ->
            2 + SumOver(DOMAIN x.v,
                        [k \in DOMAIN x.v |-> Len(k) + 3 + StringifyLength(x.v[k])])
              + (IF Cardinality(DOMAIN x.v) > 1
                 THEN Cardinality(DOMAIN x.v) - 1 ELSE 0)

(* ------------------- what the remote service returns ------------------ *)
PeoplePath(id) == "people/" \o ToString(id)
VehiclePath(id) == "vehicles/" \o ToString(id)
StarshipsPath == "starships/?page=1"
PlanetsPath == "planets/?page=1"
FilmsPath == "films/"

\* the largest cursor value a behaviour can reach: a run advances the
\* cursor once at most, and only from a value within the bound
MaxId == MAX_VEHICLE_CHARACTER_ID + MaxRuns
PeoplePaths == {PeoplePath(i) : i \in 1..MaxId}
VehiclePaths == {VehiclePath(i) : i \in 1..MaxId}
Paths == PeoplePaths \cup VehiclePaths \cup {StarshipsPath, PlanetsPath, FilmsPath}

Luke == JObj([name |-> JStr("Luke"), films |-> JArr(<<JStr("f1")>>)])
Threepio == JObj([name |-> JStr("C-3PO")])
XWing == JObj([name |-> JStr("X-wing"), cost_in_credits |-> JStr("unknown")])
ShipsPage == JObj([count |-> JNum(36), results |-> JArr(<<XWing>>)])
NoResults == JObj([count |-> JNum(0)])
Tatooine == JObj([name |-> JStr("Tatooine"), population |-> JStr("200000"),
                  diameter |-> JStr("10465")])
Alderaan == JObj([name |-> JStr("Alderaan"), population |-> JStr("2000000000"),
                  diameter |-> JStr("12500")])
PlanetsPage == JObj([results |-> JArr(<<Tatooine, Alderaan>>)])
Empire == JObj([title |-> JStr("V"), release_date |-> JStr("1980-05-17"),
                characters |-> JArr(<<>>), planets |-> JArr(<<>>)])
NewHope == JObj([title |-> JStr("IV"), release_date |-> JStr("1977-05-25"),
                 characters |-> JArr(<<>>), planets |-> JArr(<<>>)])
FilmsPage == JObj([results |-> JArr(<<Empire, NewHope>>)])
SandCrawler == JObj([name |-> JStr("Sand Crawler")])

\* The response body did not parse (JSON.parse throws a SyntaxError).
Malformed == [t |-> "malformed"]

\* The bodies the service may answer a GET of `path` with: well-formed
\* resources, JSON that is not the expected resource (null, 0, an object
\* without `results`), and text that is not JSON.
Bodies(path) ==
    {Malformed} \cup
    (CASE path \in PeoplePaths -> {Luke, Threepio, JNum(0)}
       [] path \in VehiclePaths -> {SandCrawler, JNull}
       [] path = StarshipsPath -> {ShipsPage, NoResults}
       [] path = PlanetsPath -> {PlanetsPage}
       [] OTHER -> {FilmsPage})

Statuses == {200, 400, 500}

(* -------------------------- display functions ------------------------- *)
Min(a, b) == IF a < b THEN a ELSE b

\* Each display function either completes or throws a TypeError; these are
\* the payloads on which it throws.
PrintCharacterThrows(characterData) == ~CanRead(characterData)

PrintStarshipThrows(starshipsData) ==
    \/ ~CanRead(starshipsData)
    \/ Prop(starshipsData, "results").t # "array"
    \/ LET results == Prop(starshipsData, "results").v
       IN  \E i \in 1..Min(MAX_STARSHIPS_DISPLAYED, Len(results)) : ~CanRead(results[i])

PrintLargePlanetsThrows(planetsData) ==
    \/ ~CanRead(planetsData)
    \/ Prop(planetsData, "results").t # "array"
    \/ LET results == Prop(planetsData, "results").v
       IN  \E i \in 1..Len(results) : ~CanRead(results[i])

PrintFilmsThrows(filmsData) ==
    \/ ~CanRead(filmsData)
    \/ Prop(filmsData, "results").t # "array"
    \/ LET results == Prop(filmsData, "results").v
       IN  \E i \in 1..Len(results) :
              \/ ~CanRead(results[i])
              \/ ~CanRead(Prop(results[i], "characters"))
              \/ ~CanRead(Prop(results[i], "planets"))

PrintVehicleThrows(vehicleData) == ~CanRead(vehicleData)

\* The decimal numerals among the strings of this model.
Numerals == {0, 10000, 10001, 10465, 12500, 200000, 999999999, 1000000000,
             1000000001, 2000000000}

\* parseInt(x) is a number (not NaN): for a number, and for a string that
\* starts with a numeral (the numeric strings of this model are numerals
\* and nothing else); "unknown", null and undefined give NaN.
ParsesAsInt(x) ==
    \/ x.t = "number"
    \/ x.t = "string" /\ \E n \in Numerals : ToString(n) = x.v

\* parseInt(x), where it is a number
ParseInt(x) ==
    IF x.t = "number" THEN x.v ELSE CHOOSE n \in Numerals : ToString(n) = x.v

\* IsLargeAndPopulated with `>=` for `>`
IsLargeAndPopulatedInclusive(planet) ==
    /\ Prop(planet, "population") # JStr("unknown")
    /\ ParsesAsInt(Prop(planet, "population"))
    /\ ParseInt(Prop(planet, "population")) >= MIN_POPULATION
    /\ Prop(planet, "diameter") # JStr("unknown")
    /\ ParsesAsInt(Prop(planet, "diameter"))
    /\ ParseInt(Prop(planet, "diameter")) >= MIN_DIAMETER

\* the filter of printLargePlanets (a comparison with NaN is false)
IsLargeAndPopulated(planet) ==
    /\ Prop(planet, "population") # JStr("unknown")
    /\ ParsesAsInt(Prop(planet, "population"))
    /\ ParseInt(Prop(planet, "population")) > MIN_POPULATION
    /\ Prop(planet, "diameter") # JStr("unknown")
    /\ ParsesAsInt(Prop(planet, "diameter"))
    /\ ParseInt(Prop(planet, "diameter")) > MIN_DIAMETER

\* the number of elements of an array before the first one that is null
RECURSIVE LeadingReadable(_)
LeadingReadable(results) ==
    IF results = <<>> \/ ~CanRead(results[1]) THEN 0
    ELSE 1 + LeadingReadable(Tail(results))

\* What a display function prints up to its return or its throw: the
\* items it prints a block of lines for, in the order of printing.
PrintedCharacter(characterData) ==
    IF CanRead(characterData) THEN <<characterData>> ELSE <<>>

PrintedStarships(starshipsData) ==
    IF Prop(starshipsData, "results").t # "array" THEN <<>>
    ELSE LET results == Prop(starshipsData, "results").v
             shown == SubSeq(results, 1, Min(MAX_STARSHIPS_DISPLAYED, Len(results)))
         IN  SubSeq(shown, 1, LeadingReadable(shown))

PrintedLargePlanets(planetsData) ==
    IF Prop(planetsData, "results").t # "array" THEN <<>>
    ELSE LET results == Prop(planetsData, "results").v
         IN  SelectSeq(SubSeq(results, 1, LeadingReadable(results)),
                       IsLargeAndPopulated)

PrintedVehicle(vehicleData) ==
    IF CanRead(vehicleData) THEN <<vehicleData>> ELSE <<>>

\* new Date(x) is a valid date for the date strings of this model, for
\* numbers and for null (the epoch); anything else gives an invalid date.
IsValidDate(x) ==
    \/ x.t = "string" /\ x.v \in {"1977-05-25", "1980-05-17", "1983-05-25"}
    \/ x.t \in {"number", "null"}

\* new Date(x) as a number of days since the epoch, for a valid date
DateValue(x) ==
    CASE x.t = "string" /\ x.v = "1977-05-25" -> 2701
      [] x.t = "string" /\ x.v = "1980-05-17" -> 3789
      [] x.t = "string" /\ x.v = "1983-05-25" -> 4892
      [] x.t = "number" -> x.v
      [] OTHER -> 0

\* the comparator of printFilmsData: a difference with an invalid date is
\* NaN, which sort treats as 0
CompareFilms(filmA, filmB) ==
    LET a == Prop(filmA, "release_date")
        b == Prop(filmB, "release_date")
    IN  IF IsValidDate(a) /\ IsValidDate(b) THEN DateValue(a) - DateValue(b) ELSE 0

\* InsertFilm putting the element before the elements it compares equal to
RECURSIVE InsertFilmBeforeEquals(_, _)
InsertFilmBeforeEquals(sorted, film) ==
    IF sorted = <<>> THEN <<film>>
    ELSE IF CompareFilms(sorted[Len(sorted)], film) >= 0
         THEN Append(InsertFilmBeforeEquals(SubSeq(sorted, 1, Len(sorted) - 1), film),
                     sorted[Len(sorted)])
         ELSE Append(sorted, film)

\* Array.prototype.sort is stable: insert each element after the last
\* element that does not compare greater than it.
RECURSIVE InsertFilm(_, _)
InsertFilm(sorted, film) ==
    IF sorted = <<>> THEN <<film>>
    ELSE IF CompareFilms(sorted[Len(sorted)], film) > 0
         THEN Append(InsertFilm(SubSeq(sorted, 1, Len(sorted) - 1), film),
                     sorted[Len(sorted)])
         ELSE Append(sorted, film)

RECURSIVE SortFilms(_)
SortFilms(films) ==
    IF films = <<>> THEN <<>>
    ELSE CHOOSE result \in {InsertFilm(sorted, films[Len(films)]) :
                               sorted \in {SortFilms(SubSeq(films, 1, Len(films) - 1))}} :
            TRUE

\* printFilmsData sorts filmsData.results in place: the payload object
\* after the call.
FilmsAfterPrint(filmsData) ==
    IF /\ CanRead(filmsData)
       /\ Prop(filmsData, "results").t = "array"
       /\ \A i \in 1..Len(Prop(filmsData, "results").v) :
             CanRead(Prop(filmsData, "results").v[i])
    THEN JObj([filmsData.v EXCEPT !.results = JArr(SortFilms(filmsData.v.results.v))])
    ELSE filmsData

\* the films printFilmsData prints the title of, given the sorted films: it
\* throws in the block of the first film whose `characters` or `planets`
\* has no length (sortedFilms names the one array `sort` returns)
FilmsReached(films) ==
    LET unprintable == {i \in DOMAIN films :
                           \/ ~CanRead(Prop(films[i], "characters"))
                           \/ ~CanRead(Prop(films[i], "planets"))}
    IN  IF unprintable = {} THEN films
        ELSE SubSeq(films, 1, CHOOSE i \in unprintable : \A j \in unprintable : i <= j)

PrintedFilms(filmsData) ==
    IF \/ Prop(filmsData, "results").t # "array"
       \/ \E i \in 1..Len(Prop(filmsData, "results").v) :
             ~CanRead(Prop(filmsData, "results").v[i])
    THEN <<>>
    ELSE CHOOSE printed \in {FilmsReached(sortedFilms) :
                                sortedFilms \in {SortFilms(Prop(filmsData, "results").v)}} :
            TRUE

(* ------------------------------- state -------------------------------- *)
VARIABLES
    apiCache,         \* resource path -> parsed value (the keys are its DOMAIN)
    errorCount,
    lastCharacterId,
    apiCallCount,
    totalDataSize,
    run,              \* slot -> the activation of fetchAndDisplayStarWarsData in it
    reqs,             \* slot -> the https requests that activation has issued
    turn,             \* the slot whose continuation holds the thread, 0 for none
    served,           \* history: /api requests answered in this behaviour
    gets,             \* history: resource path -> the number of GETs issued for it
    overlapped        \* history: a run was started while another was in progress

vars == <<apiCache, errorCount, lastCharacterId, apiCallCount, totalDataSize,
          run, reqs, turn, served, gets, overlapped>>

\* An activation.  pc is its position; step the step it is in (1 character,
\* 2 starships, 3 planets, 4 films, 5 vehicle); result the payload its
\* await has delivered; awaiting the index in reqs of the request it
\* awaits; outcome the state of the promise it returned.  The rest is
\* history: log the operations it has done in order, got the payloads its
\* fetches have returned in order, out the items its last display has
\* printed, reply the HTTP responses written to the /api request that
\* started it, failedAt the step whose fetch was
\* rejected, threwAt the step whose display threw, caught the increments of
\* errorCount by its catch block.
IdleRun ==
    [pc |-> "idle", step |-> 0, awaiting |-> 0, result |-> Nothing,
     outcome |-> "none", log |-> <<>>, got |-> <<>>, out |-> <<>>, failedAt |-> 0,
     threwAt |-> 0, caught |-> 0, reply |-> <<>>]

\* An https request.  st: "sent" (no response yet), "receiving" (status
\* below 400, body arriving), "unconsumed" (status 400 or more: the handler
\* returned without reading the body), "hangup" (aborted before a
\* response: the socket hang up error is still to be emitted), "closed".
\* promise is the state of the promise fetchFromApi returned for it and
\* error the kind of the Error it was rejected with ("status", "parse",
\* "network", "timeout"); errs counts the increments of errorCount by this
\* request's handlers.
NewRequest(path, step) ==
    [path |-> path, step |-> step, st |-> "sent", promise |-> "pending",
     error |-> "none", errs |-> 0]

\* the module's top-level `let` declarations
Init ==
    /\ apiCache = [p \in {} |-> Nothing]
    /\ errorCount = 0
    /\ lastCharacterId = 1
    /\ apiCallCount = 0
    /\ totalDataSize = 0
    /\ run = [r \in Slots |-> IdleRun]
    /\ reqs = [r \in Slots |-> <<>>]
    /\ turn = 0
    /\ served = 0
    /\ gets = [p \in Paths |-> 0]
    /\ overlapped = FALSE

(* ------------------------------ fetcher ------------------------------- *)
\* IsCached with the cache test left out: every call goes to the network.
IsCachedNever(resourcePath) == FALSE

\* `if (apiCache[resourcePath])`: a missing key reads as undefined.
IsCached(resourcePath) ==
    resourcePath \in DOMAIN apiCache /\ Truthy(apiCache[resourcePath])

\* GetCachedData handing out null in place of the cached value
GetCachedDataNull(resourcePath) == JNull

\* `return apiCache[resourcePath]`
GetCachedData(resourcePath) == apiCache[resourcePath]

\* CacheData with the cache replaced by the new entry alone
CacheDataReplacing(resourcePath, parsedData) ==
    [p \in {resourcePath} |-> parsedData]

\* `apiCache[resourcePath] = parsedData`
CacheData(resourcePath, parsedData) ==
    [p \in DOMAIN apiCache \cup {resourcePath} |->
        IF p = resourcePath THEN parsedData ELSE apiCache[p]]

\* CachedAtEnd storing a value (null) for a body that does not parse
CachedAtEndLenient(resourcePath, body) ==
    CacheData(resourcePath, IF body = Malformed THEN JNull ELSE body)

\* The cache after the end handler: JSON.parse throws on a malformed body,
\* before the assignment to the cache.
CachedAtEnd(resourcePath, body) ==
    IF body = Malformed THEN apiCache ELSE CacheData(resourcePath, body)

\* The thread after a step of the activation rr of slot r: the activation
\* keeps it until it suspends at an await on a pending promise or returns.
Holder(r, rr) == IF rr.pc \in {"await", "done"} THEN 0 ELSE r

\* Resumed with the rejection swallowed at the await: the activation goes on
\* to its next step.
ResumedIgnoringRejection(rr, i, kind, value) ==
    IF rr.pc = "await" /\ rr.awaiting = i
    THEN IF kind = "resolved"
         THEN [rr EXCEPT !.pc = "size", !.awaiting = 0, !.result = value,
                         !.got = Append(@, value)]
         ELSE [rr EXCEPT !.pc = IF rr.step < 4 THEN "call" ELSE "stats",
                         !.step = IF rr.step < 4 THEN rr.step + 1 ELSE rr.step,
                         !.awaiting = 0, !.failedAt = rr.step]
    ELSE rr

\* Resumed with a rejected fetch called again
ResumedRetrying(rr, i, kind, value) ==
    IF rr.pc = "await" /\ rr.awaiting = i
    THEN IF kind = "resolved"
         THEN [rr EXCEPT !.pc = "size", !.awaiting = 0, !.result = value,
                         !.got = Append(@, value)]
         ELSE [rr EXCEPT !.pc = "call", !.awaiting = 0]
    ELSE rr

\* An activation once request i of its slot has settled its promise: the
\* continuation of the await is made ready when it awaits that request; a
\* rejection is thrown at the await, inside the try block.
Resumed(rr, i, kind, value) ==
    IF rr.pc = "await" /\ rr.awaiting = i
    THEN IF kind = "resolved"
         THEN [rr EXCEPT !.pc = "size", !.awaiting = 0, !.result = value,
                         !.got = Append(@, value)]
         ELSE [rr EXCEPT !.pc = "catch", !.awaiting = 0, !.failedAt = rr.step]
    ELSE rr

\* resolve(value) or reject(error) on the promise of request i of slot r:
\* it settles a pending promise and does nothing on a settled one.
Settle(r, i, kind, value) ==
    IF reqs[r][i].promise = "pending"
    THEN /\ run' = [run EXCEPT ![r] = Resumed(run[r], i, kind, value)]
         /\ turn' = Holder(r, run'[r])
    ELSE UNCHANGED <<run, turn>>

SettledAs(q, kind) == IF q.promise = "pending" THEN kind ELSE q.promise

\* RejectedWith with the Error of the last reject
RejectedWithLast(q, error) == error

\* the Error a promise is rejected with: that of the first reject
RejectedWith(q, error) == IF q.promise = "pending" THEN error ELSE q.error

\* A handler of request i of slot r counts an error and rejects with an
\* Error of the given kind.
Fail(r, i, st, error) ==
    /\ errorCount' = errorCount + 1
    /\ reqs' = [reqs EXCEPT ![r][i] =
                   [@ EXCEPT !.st = st, !.errs = @ + 1,
                             !.promise = SettledAs(reqs[r][i], "rejected"),
                             !.error = RejectedWith(reqs[r][i], error)]]
    /\ Settle(r, i, "rejected", Nothing)

\* the response callback of https.get
Response(r, i, statusCode) ==
    /\ turn = 0
    /\ reqs[r][i].st = "sent"
    /\ IF statusCode >= HTTP_ERROR_THRESHOLD
       THEN Fail(r, i, "unconsumed", "status")
       ELSE /\ reqs' = [reqs EXCEPT ![r][i].st = "receiving"]
            /\ UNCHANGED <<errorCount, run, turn>>
    /\ UNCHANGED <<apiCache, lastCharacterId, apiCallCount, totalDataSize, served,
                   gets, overlapped>>

\* response.on('end'): parse the buffered body, cache it, resolve
End(r, i, body) ==
    /\ turn = 0
    /\ reqs[r][i].st = "receiving"
    /\ apiCache' = CachedAtEnd(reqs[r][i].path, body)
    /\ IF body = Malformed
       THEN Fail(r, i, "closed", "parse")
       ELSE /\ reqs' = [reqs EXCEPT ![r][i] =
                           [@ EXCEPT !.st = "closed",
                                     !.promise = SettledAs(reqs[r][i], "resolved")]]
            /\ Settle(r, i, "resolved", body)
            /\ UNCHANGED errorCount
    /\ UNCHANGED <<lastCharacterId, apiCallCount, totalDataSize, served, gets, overlapped>>

\* request.on('error'): a connection failure before the response, or the
\* socket hang up that request.abort() raises when it is called before a
\* response has arrived
RequestError(r, i) ==
    /\ turn = 0
    /\ reqs[r][i].st \in {"sent", "hangup"}
    /\ Fail(r, i, "closed", "network")
    /\ UNCHANGED <<apiCache, lastCharacterId, apiCallCount, totalDataSize, served,
                   gets, overlapped>>

\* the request.setTimeout callback: the socket has been idle for
\* requestTimeout ms; it aborts the request, counts and rejects
Timeout(r, i) ==
    /\ turn = 0
    /\ reqs[r][i].st \in {"sent", "receiving", "unconsumed"}
    /\ Fail(r, i, IF reqs[r][i].st = "sent" THEN "hangup" ELSE "closed", "timeout")
    /\ UNCHANGED <<apiCache, lastCharacterId, apiCallCount, totalDataSize, served,
                   gets, overlapped>>

(* ---------------------------- orchestrator ---------------------------- *)
\* the resource path of a step, read from the cursor when the step starts
StepPath(step, id) ==
    CASE step = 1 -> PeoplePath(id)
      [] step = 2 -> StarshipsPath
      [] step = 3 -> PlanetsPath
      [] step = 4 -> FilmsPath
      [] OTHER -> VehiclePath(id)

\* the display function of a step throws on this payload
DisplayThrows(step, data) ==
    CASE step = 1 -> PrintCharacterThrows(data)
      [] step = 2 -> PrintStarshipThrows(data)
      [] step = 3 -> PrintLargePlanetsThrows(data)
      [] step = 4 -> PrintFilmsThrows(data)
      [] OTHER -> PrintVehicleThrows(data)

\* what the display function of a step prints
Printed(step, data) ==
    CASE step = 1 -> PrintedCharacter(data)
      [] step = 2 -> PrintedStarships(data)
      [] step = 3 -> PrintedLargePlanets(data)
      [] step = 4 -> PrintedFilms(data)
      [] OTHER -> PrintedVehicle(data)

\* VehicleGuard off by one
VehicleGuardOffByOne(id) == id <= MAX_VEHICLE_CHARACTER_ID + 1

\* `if (lastCharacterId <= MAX_VEHICLE_CHARACTER_ID)`
VehicleGuard(id) == id <= MAX_VEHICLE_CHARACTER_ID

\* Awaiting with the `await` left out: the activation goes on to its next
\* step while the promise is pending.
NotAwaited(rr, i) ==
    [rr EXCEPT !.pc = IF rr.step < 4 THEN "call" ELSE "stats",
               !.step = IF rr.step < 4 THEN rr.step + 1 ELSE rr.step]

\* the suspension at `await` on the pending promise of request i
Awaiting(rr, i) == [rr EXCEPT !.pc = "await", !.awaiting = i]

\* AfterDisplay with the starships step left out
AfterDisplaySkipping(rr) ==
    IF rr.step < 4
    THEN [rr EXCEPT !.pc = "call", !.step = IF rr.step = 1 THEN 3 ELSE rr.step + 1,
                    !.result = Nothing]
    ELSE IF rr.step = 4 THEN [rr EXCEPT !.pc = "guard", !.result = Nothing]
    ELSE [rr EXCEPT !.pc = "advance", !.result = Nothing]

\* where an activation goes once the display of its step has returned
AfterDisplay(rr) ==
    IF rr.step < 4 THEN [rr EXCEPT !.pc = "call", !.step = rr.step + 1, !.result = Nothing]
    ELSE IF rr.step = 4 THEN [rr EXCEPT !.pc = "guard", !.result = Nothing]
    ELSE [rr EXCEPT !.pc = "advance", !.result = Nothing]

\* Thrown with no try block around the steps: the exception rejects the
\* promise of the activation.
ThrownUncaught(rr) == [rr EXCEPT !.pc = "done", !.outcome = "rejected", !.result = Nothing]

\* an exception inside the try block goes to the catch block
Thrown(rr) == [rr EXCEPT !.pc = "catch", !.result = Nothing]

\* the end of the async function: its promise is fulfilled
Returned(rr) == [rr EXCEPT !.pc = "done", !.outcome = "fulfilled"]

InProgress(r) == run[r].pc \notin {"idle", "done"}

\* GET /api: the server's handler calls fetchAndDisplayStarWarsData().
ApiRequest(r) ==
    /\ turn = 0
    /\ served < MaxRuns
    /\ r = served + 1
    /\ run' = [run EXCEPT ![r] = [IdleRun EXCEPT !.pc = "start", !.outcome = "pending"]]
    /\ turn' = r
    /\ served' = served + 1
    /\ overlapped' = (overlapped \/ \E o \in Slots : InProgress(o))
    /\ UNCHANGED <<apiCache, errorCount, lastCharacterId, apiCallCount, totalDataSize,
                   reqs, gets>>

\* the value `apiCallCount++` assigns
CountedCall == apiCallCount + 1

\* `apiCallCount++`
Start(r) ==
    /\ turn = r /\ run[r].pc = "start"
    /\ apiCallCount' = CountedCall
    /\ run' = [run EXCEPT ![r] = [@ EXCEPT !.pc = "call", !.step = 1,
                                            !.log = Append(@, <<"count">>)]]
    /\ UNCHANGED <<apiCache, errorCount, lastCharacterId, totalDataSize, reqs, turn,
                   served, gets, overlapped>>

\* ApiReply turning to status 500 once an error has been counted
ApiReplyAfterErrors ==
    [status |-> IF errorCount > 0 THEN 500 ELSE 200, type |-> "text/plain",
     body |-> "Fetching Star Wars data. Check the console."]

\* `res.writeHead(200, { 'Content-Type': 'text/plain' }); res.end(...)` of
\* the /api branch of the server
ApiReply ==
    [status |-> 200, type |-> "text/plain",
     body |-> "Fetching Star Wars data. Check the console."]

\* `await fetchFromApi(path)`: a cached value is returned at once (the
\* continuation runs next); otherwise the GET is issued and the activation
\* gives the thread back until the request settles the promise.  At its
\* first await the activation returns to the /api handler that called it,
\* which writes the response before anything else runs.
Call(r) ==
    /\ turn = r /\ run[r].pc = "call"
    /\ LET path == StepPath(run[r].step, lastCharacterId)
           called == [run[r] EXCEPT
                         !.log = Append(@, <<"fetch", run[r].step, path>>),
                         !.reply = IF run[r].step = 1 THEN Append(@, ApiReply) ELSE @]
       IN  IF IsCached(path)
           THEN /\ run' = [run EXCEPT ![r] =
                              [called EXCEPT !.pc = "size", !.result = GetCachedData(path),
                                             !.got = Append(@, GetCachedData(path))]]
                /\ UNCHANGED <<reqs, gets>>
           ELSE /\ reqs' = [reqs EXCEPT ![r] = Append(@, NewRequest(path, run[r].step))]
                /\ gets' = [gets EXCEPT ![path] = @ + 1]
                /\ run' = [run EXCEPT ![r] = Awaiting(called, Len(reqs[r]) + 1)]
    /\ turn' = Holder(r, run'[r])
    /\ UNCHANGED <<apiCache, errorCount, lastCharacterId, apiCallCount, totalDataSize,
                   served, overlapped>>

\* AddDataSize with `=` for `+=`
AddDataSizeOverwriting(data) == StringifyLength(data)

\* the value `totalDataSize += JSON.stringify(data).length` assigns
AddDataSize(data) == totalDataSize + StringifyLength(data)

\* `totalDataSize += JSON.stringify(data).length` (JSON.stringify does not
\* throw on a value JSON.parse has produced)
Size(r) ==
    /\ turn = r /\ run[r].pc = "size"
    /\ totalDataSize' = AddDataSize(run[r].result)
    /\ run' = [run EXCEPT ![r] = [@ EXCEPT !.pc = "display",
                                            !.log = Append(@, <<"size", run[r].step>>)]]
    /\ UNCHANGED <<apiCache, errorCount, lastCharacterId, apiCallCount, reqs, turn,
                   served, gets, overlapped>>

\* the display function of the step, on the payload (which is the cached
\* object itself: printFilmsData sorts its results in place)
Display(r) ==
    /\ turn = r /\ run[r].pc = "display"
    /\ LET step == run[r].step
           data == run[r].result
       IN  /\ apiCache' = IF step = 4 /\ FilmsPath \in DOMAIN apiCache
                          THEN [apiCache EXCEPT ![FilmsPath] = FilmsAfterPrint(data)]
                          ELSE apiCache
           /\ run' = [run EXCEPT ![r] =
                         IF DisplayThrows(step, data)
                         THEN [Thrown(@) EXCEPT !.threwAt = step,
                                                !.out = Printed(step, data)]
                         ELSE AfterDisplay([@ EXCEPT !.log = Append(@, <<"show", step>>),
                                                     !.out = Printed(step, data)])]
    /\ turn' = Holder(r, run'[r])
    /\ UNCHANGED <<errorCount, lastCharacterId, apiCallCount, totalDataSize, reqs,
                   served, gets, overlapped>>

\* the guard of the vehicle step
Guard(r) ==
    /\ turn = r /\ run[r].pc = "guard"
    /\ run' = [run EXCEPT ![r] =
                  IF VehicleGuard(lastCharacterId)
                  THEN [@ EXCEPT !.pc = "call", !.step = 5]
                  ELSE [@ EXCEPT !.pc = "stats"]]
    /\ UNCHANGED <<apiCache, errorCount, lastCharacterId, apiCallCount, totalDataSize,
                   reqs, turn, served, gets, overlapped>>

\* `lastCharacterId++`
Advance(r) ==
    /\ turn = r /\ run[r].pc = "advance"
    /\ lastCharacterId' = lastCharacterId + 1
    /\ run' = [run EXCEPT ![r] = [@ EXCEPT !.pc = "stats",
                                            !.log = Append(@, <<"advance">>)]]
    /\ UNCHANGED <<apiCache, errorCount, apiCallCount, totalDataSize, reqs, turn,
                   served, gets, overlapped>>

\* printStats(), then the function returns
Stats(r) ==
    /\ turn = r /\ run[r].pc = "stats"
    /\ run' = [run EXCEPT ![r] = Returned(@)]
    /\ turn' = Holder(r, run'[r])
    /\ UNCHANGED <<apiCache, errorCount, lastCharacterId, apiCallCount, totalDataSize,
                   reqs, served, gets, overlapped>>

\* Catch undoing the run: the entries its fetches stored leave the cache
CatchRollingBack(r) ==
    /\ turn = r /\ run[r].pc = "catch"
    /\ errorCount' = errorCount + 1
    /\ apiCache' = [p \in DOMAIN apiCache \ {reqs[r][i].path : i \in DOMAIN reqs[r]} |->
                       apiCache[p]]
    /\ run' = [run EXCEPT ![r] = [Returned(@) EXCEPT !.caught = @ + 1]]
    /\ turn' = Holder(r, run'[r])
    /\ UNCHANGED <<lastCharacterId, apiCallCount, totalDataSize, reqs,
                   served, gets, overlapped>>

\* the catch block: log the message, `errorCount++`, then the function returns
Catch(r) ==
    /\ turn = r /\ run[r].pc = "catch"
    /\ errorCount' = errorCount + 1
    /\ run' = [run EXCEPT ![r] = [Returned(@) EXCEPT !.caught = @ + 1]]
    /\ turn' = Holder(r, run'[r])
    /\ UNCHANGED <<apiCache, lastCharacterId, apiCallCount, totalDataSize, reqs,
                   served, gets, overlapped>>

Next ==
    \/ \E r \in Slots : ApiRequest(r)
    \/ \E r \in Slots : Start(r)
    \/ \E r \in Slots : Call(r)
    \/ \E r \in Slots : Size(r)
    \/ \E r \in Slots : Display(r)
    \/ \E r \in Slots : Guard(r)
    \/ \E r \in Slots : Advance(r)
    \/ \E r \in Slots : Stats(r)
    \/ \E r \in Slots : Catch(r)
    \/ \E r \in Slots : \E i \in DOMAIN reqs[r] :
          \E statusCode \in Statuses : Response(r, i, statusCode)
    \/ \E r \in Slots : \E i \in DOMAIN reqs[r] :
          \E body \in Bodies(reqs[r][i].path) : End(r, i, body)
    \/ \E r \in Slots : \E i \in DOMAIN reqs[r] : RequestError(r, i)
    \/ \E r \in Slots : \E i \in DOMAIN reqs[r] : Timeout(r, i)

\* a process that has just started
Spec == Init /\ [][Next]_vars

(* ---------------------------- a warm start ---------------------------- *)
\* The state of a process that has served k /api requests one after the
\* other, every fetch of which succeeded (people -> Luke, vehicles ->
\* SandCrawler): the cache those runs have filled (the films sorted by the
\* display), the counters they have raised, the cursor they have advanced.
WarmIds(k, last) == 1..Min(k, last)

WarmCache(k) ==
    [p \in {PeoplePath(i) : i \in WarmIds(k, MAX_VEHICLE_CHARACTER_ID + 1)}
           \cup {VehiclePath(i) : i \in WarmIds(k, MAX_VEHICLE_CHARACTER_ID)}
           \cup (IF k > 0 THEN {StarshipsPath, PlanetsPath, FilmsPath} ELSE {}) |->
        CASE p \in PeoplePaths -> Luke
          [] p \in VehiclePaths -> SandCrawler
          [] p = StarshipsPath -> ShipsPage
          [] p = PlanetsPath -> PlanetsPage
          [] OTHER -> FilmsAfterPrint(FilmsPage)]

WarmDataSize(k) ==
    k * (StringifyLength(Luke) + StringifyLength(ShipsPage)
           + StringifyLength(PlanetsPage) + StringifyLength(FilmsPage))
      + Min(k, MAX_VEHICLE_CHARACTER_ID) * StringifyLength(SandCrawler)

InitWarm ==
    /\ apiCache = WarmCache(WarmRuns)
    /\ errorCount = 0
    /\ lastCharacterId = Min(WarmRuns, MAX_VEHICLE_CHARACTER_ID) + 1
    /\ apiCallCount = WarmRuns
    /\ totalDataSize = WarmDataSize(WarmRuns)
    /\ run = [r \in Slots |-> IdleRun]
    /\ reqs = [r \in Slots |-> <<>>]
    /\ turn = 0
    /\ served = 0
    /\ gets = [p \in Paths |-> IF p \in DOMAIN WarmCache(WarmRuns) THEN 1 ELSE 0]
    /\ overlapped = FALSE

\* a process that has already served WarmRuns requests
SpecWarm == InitWarm /\ [][Next]_vars

(* ------------------------- after a race ------------------------------- *)
\* The state of a process that has served MAX_VEHICLE_CHARACTER_ID - 1
\* requests one after the other and then two requests at once, every fetch
\* of which succeeded: both of the two runs asked for people/4, both passed
\* the guard of the vehicle step with the cursor at 4 before either advanced
\* it, and both advanced it.
RacedRuns == MAX_VEHICLE_CHARACTER_ID + 1

InitRaced ==
    /\ apiCache = WarmCache(MAX_VEHICLE_CHARACTER_ID)
    /\ errorCount = 0
    /\ lastCharacterId = MAX_VEHICLE_CHARACTER_ID + 2
    /\ apiCallCount = RacedRuns
    /\ totalDataSize = WarmDataSize(MAX_VEHICLE_CHARACTER_ID) + WarmDataSize(1)
    /\ run = [r \in Slots |-> IdleRun]
    /\ reqs = [r \in Slots |-> <<>>]
    /\ turn = 0
    /\ served = 0
    /\ gets = [p \in Paths |->
                  IF p \in {PeoplePath(MAX_VEHICLE_CHARACTER_ID),
                            VehiclePath(MAX_VEHICLE_CHARACTER_ID)} THEN 2
                  ELSE IF p \in DOMAIN WarmCache(MAX_VEHICLE_CHARACTER_ID) THEN 1 ELSE 0]
    /\ overlapped = TRUE

\* a process that has already served requests, one at a time or two at once
SpecRaced == (InitWarm \/ InitRaced) /\ [][Next]_vars

(* ----------------------- the display functions ------------------------ *)
\* The planets and films pages the display functions are applied to: every
\* list of at most MaxPlanets planets over these populations and diameters,
\* every list of at most MaxFilms films over these release dates.  A planet
\* is named after its population and diameter, a film after its place in
\* the page, so equal items of a page are told apart by what is printed.
MaxPlanets == 2
MaxFilms == 3

Populations == {"unknown", "999999999", "1000000000", "1000000001"}
Diameters == {"unknown", "10000", "10001"}
ReleaseDates == {"1977-05-25", "1980-05-17", "1983-05-25"}

SeqsUpTo(S, n) == UNION {[1..k -> S] : k \in 0..n}

PlanetOf(population, diameter) ==
    JObj([name |-> JStr(population \o "/" \o diameter),
          population |-> JStr(population), diameter |-> JStr(diameter)])

FilmOf(place, date) ==
    JObj([title |-> JStr(ToString(place)), release_date |-> JStr(date),
          characters |-> JArr(<<>>), planets |-> JArr(<<>>)])

PlanetsPages ==
    {JObj([results |-> JArr(planets)]) :
        planets \in SeqsUpTo({PlanetOf(p, d) : p \in Populations, d \in Diameters},
                             MaxPlanets)}

FilmsPages ==
    {JObj([results |-> JArr([i \in DOMAIN dates |-> FilmOf(i, dates[i])])]) :
        dates \in SeqsUpTo(ReleaseDates, MaxFilms)}

\* the log of a run whose steps 1..step have fetched, sized and displayed
RECURSIVE StepsLog(_)
StepsLog(step) ==
    IF step = 0 THEN << <<"count">> >>
    ELSE StepsLog(step - 1)
            \o << <<"fetch", step, StepPath(step, 1)>>, <<"size", step>>,
                  <<"show", step>> >>

\* The first run of a process, every fetch of which has succeeded, about to
\* display the planets page (step 3) or the films page (step 4) it has
\* fetched and sized.
AtDisplay(step, page) ==
    LET payloads == SubSeq(<<Luke, ShipsPage, PlanetsPage>>, 1, step - 1) \o <<page>>
    IN  /\ apiCache = [p \in {StepPath(s, 1) : s \in 1..step} |->
                          payloads[CHOOSE s \in 1..step : StepPath(s, 1) = p]]
        /\ errorCount = 0
        /\ lastCharacterId = 1
        /\ apiCallCount = 1
        /\ totalDataSize = SumOver(1..step, [s \in 1..step |-> StringifyLength(payloads[s])])
        /\ run = [r \in Slots |->
                     IF r = 1
                     THEN [IdleRun EXCEPT
                              !.pc = "display", !.step = step, !.result = page,
                              !.outcome = "pending",
                              !.log = StepsLog(step - 1)
                                         \o << <<"fetch", step, StepPath(step, 1)>>,
                                               <<"size", step>> >>,
                              !.got = payloads,
                              !.reply = <<ApiReply>>,
                              !.out = Printed(step - 1, payloads[step - 1])]
                     ELSE IdleRun]
        /\ reqs = [r \in Slots |->
                      IF r = 1
                      THEN [s \in 1..step |->
                               [NewRequest(StepPath(s, 1), s) EXCEPT
                                   !.st = "closed", !.promise = "resolved"]]
                      ELSE <<>>]
        /\ turn = 1
        /\ served = 1
        /\ gets = [p \in Paths |-> IF p \in {StepPath(s, 1) : s \in 1..step} THEN 1 ELSE 0]
        /\ overlapped = FALSE

InitDisplay ==
    \/ \E page \in PlanetsPages : AtDisplay(3, page)
    \/ \E page \in FilmsPages : AtDisplay(4, page)

NextDisplay == \E r \in Slots : Display(r)

\* the display functions applied to the pages
SpecDisplay == InitDisplay /\ [][NextDisplay]_vars

(* ------------------------------ fairness ------------------------------ *)
\* an event of a request of slot r is delivered to its handler
RequestEvent(r) ==
    \E i \in DOMAIN reqs[r] :
       \/ \E statusCode \in Statuses : Response(r, i, statusCode)
       \/ \E body \in Bodies(reqs[r][i].path) : End(r, i, body)
       \/ RequestError(r, i)
       \/ Timeout(r, i)

\* the continuation of the activation of slot r runs
RunStep(r) ==
    \/ Start(r) \/ Call(r) \/ Size(r) \/ Display(r) \/ Guard(r)
    \/ Advance(r) \/ Stats(r) \/ Catch(r)

\* The runtime runs every continuation that is ready, and every request
\* that is open gets an event in the end: the end of the response, an
\* error, or the callback of the timer set by request.setTimeout.  Nothing
\* obliges a client to send /api requests.
SpecFair ==
    /\ Spec
    /\ \A r \in Slots : WF_vars(RunStep(r)) /\ WF_vars(RequestEvent(r))

(* ------------------------------ claims -------------------------------- *)
\* the entries of a log with a given tag
Entries(log, tag) == {j \in DOMAIN log : log[j][1] = tag}

\* the step in which slot r calls fetchFromApi, and the path it asks for
Calls(r) == turn = r /\ run[r].pc = "call"
CalledPath(r) == StepPath(run[r].step, lastCharacterId)

\* the step in which the end handler of request i of slot r caches and resolves
Stores(r, i) ==
    /\ i \in DOMAIN reqs[r]
    /\ reqs[r][i].st = "receiving"
    /\ reqs'[r][i].st = "closed"
    /\ reqs'[r][i].promise = "resolved"

\* C1: once a fetchFromApi(P) has succeeded the cache holds its value under
\* P, and every later fetchFromApi(P) returns the cached value and issues
\* no GET.  In steps: a successful end handler leaves its value under P;
\* a call for a path that is a key of the cache issues no GET and hands the
\* caller the value stored under that key.
C1_CachedPathServedFromCache ==
    [][\A r \in Slots :
          /\ \A i \in DOMAIN reqs[r] :
                Stores(r, i) =>
                   /\ reqs[r][i].path \in DOMAIN apiCache'
                   /\ run'[r].result = apiCache'[reqs[r][i].path]
          /\ (Calls(r) /\ CalledPath(r) \in DOMAIN apiCache) =>
                /\ gets' = gets
                /\ run'[r].result = apiCache[CalledPath(r)]]_vars

\* C2: a run whose fetch failed at step N has sized and displayed no step
\* from N on, has called fetchFromApi for no step after N, has issued no
\* request for a step after N, and has not advanced the cursor.
C2_NoOutputFromFailedStepOn ==
    \A r \in Slots :
       run[r].failedAt > 0 =>
          /\ \A j \in Entries(run[r].log, "size") : run[r].log[j][2] < run[r].failedAt
          /\ \A j \in Entries(run[r].log, "show") : run[r].log[j][2] < run[r].failedAt
          /\ \A j \in Entries(run[r].log, "fetch") : run[r].log[j][2] <= run[r].failedAt
          /\ \A i \in DOMAIN reqs[r] : reqs[r][i].step <= run[r].failedAt
          /\ Entries(run[r].log, "advance") = {}
          /\ run[r].pc \in {"catch", "done"}

\* a run has ended after its planets fetch failed, the first two steps shown
C2_Witness ==
    \E r \in Slots :
       /\ run[r].pc = "done" /\ run[r].failedAt = 3
       /\ Cardinality(Entries(run[r].log, "show")) = 2

C4_FailedCallCountsOnce ==
    \A r \in Slots : \A i \in DOMAIN reqs[r] :
       reqs[r][i].promise = "rejected" => reqs[r][i].errs = 1

\* the increments of errorCount by the handlers of the requests of slot r
RECURSIVE SumErrs(_)
SumErrs(qs) == IF qs = <<>> THEN 0 ELSE qs[1].errs + SumErrs(Tail(qs))

\* what a run has added to errorCount: its requests' handlers and its catch
RunErrors(r) == SumErrs(reqs[r]) + run[r].caught

\* C5: a run that has ended because a fetch failed has raised errorCount by
\* exactly 2, one increment in the fetcher and one in the catch block, and
\* has shown no character when the failing fetch was the character's.
C5_AbortedRunCountsTwo ==
    \A r \in Slots :
       (run[r].pc = "done" /\ run[r].failedAt > 0) =>
          /\ RunErrors(r) = 2
          /\ SumErrs(reqs[r]) = 1 /\ run[r].caught = 1
          /\ run[r].failedAt = 1 => Entries(run[r].log, "show") = {}

\* C6 as stated: no resource path is ever the target of two network GETs.
C6_OneGetPerPath == \A p \in Paths : gets[p] <= 1

\* C6 as amended: a step issues at most one GET, it does so in a call of
\* fetchFromApi for that path, and only when the cache holds no truthy value
\* under the path.
C6_GetOnlyOnCacheMiss ==
    [][\A p \in Paths :
          gets'[p] # gets[p] =>
             /\ gets'[p] = gets[p] + 1
             /\ \A o \in Paths \ {p} : gets'[o] = gets[o]
             /\ ~(p \in DOMAIN apiCache /\ Truthy(apiCache[p]))
             /\ \E r \in Slots : Calls(r) /\ CalledPath(r) = p]_vars

\* a path has been fetched over the network twice and is cached now, and
\* a run has been served a step from the cache since
C6_Witness ==
    /\ \E p \in Paths : gets[p] = 2 /\ p \in DOMAIN apiCache /\ Truthy(apiCache[p])
    /\ \E r \in Slots : Cardinality(Entries(run[r].log, "fetch")) > Len(reqs[r])

\* the requests of slot r whose promise is pending
Pending(r) == {i \in DOMAIN reqs[r] : reqs[r][i].promise = "pending"}
AllPending == {<<r, i>> \in Slots \X (1..5) : i \in Pending(r)}

\* C7 as stated: at most one fetchFromApi request is outstanding.
C7_OneFetchInFlight == Cardinality(AllPending) <= 1

\* C7 as amended: each run has at most one request outstanding, the one it
\* is suspended on; runs in progress at the same time have one each.
C7_OneFetchInFlightPerRun ==
    \A r \in Slots :
       /\ Cardinality(Pending(r)) <= 1
       /\ \A i \in Pending(r) : run[r].pc = "await" /\ run[r].awaiting = i

\* two runs are suspended, each on its own outstanding request
C7_Witness ==
    /\ Cardinality(AllPending) = 2
    /\ \A r \in Slots : Cardinality(Pending(r)) = 1

\* C8: when the end handler stores a parsed value under a path, the path
\* was not a key of the cache before.
C8_WriteOnlyToAbsentKey ==
    [][\A r \in Slots : \A i \in DOMAIN reqs[r] :
          Stores(r, i) => reqs[r][i].path \notin DOMAIN apiCache]_vars

\* the entries of a run's log come in the order of the program text: the
\* count first, then for each step its fetch, its sizing and its display,
\* the fetch of a step right after the display of the step before.
InOrder(log) ==
    \A j \in DOMAIN log :
       CASE log[j][1] = "count" -> j = 1
         [] log[j][1] = "fetch" ->
               /\ j > 1
               /\ IF log[j][2] = 1 THEN log[j - 1] = <<"count">>
                  ELSE log[j - 1] = <<"show", log[j][2] - 1>>
         [] log[j][1] = "size" ->
               /\ j > 1 /\ log[j - 1][1] = "fetch" /\ log[j - 1][2] = log[j][2]
         [] log[j][1] = "show" -> j > 1 /\ log[j - 1] = <<"size", log[j][2]>>
         [] OTHER -> j > 1 /\ log[j - 1] = <<"show", 5>>

\* C9: within a run the steps go in the order character, starships,
\* planets, films, vehicle; the fetch of a step is issued only when the
\* fetch of the step before has resolved and its payload has been sized and
\* displayed; apiCallCount is incremented before the first fetch.
C9_StepsInOrder ==
    \A r \in Slots :
       /\ InOrder(run[r].log)
       /\ \A i \in DOMAIN reqs[r] :
             /\ \E j \in Entries(run[r].log, "fetch") : run[r].log[j][2] = reqs[r][i].step
             /\ i < Len(reqs[r]) =>
                   /\ reqs[r][i].promise = "resolved"
                   /\ reqs[r][i].step < reqs[r][i + 1].step
       /\ run[r].log # <<>> => apiCallCount >= 1

\* a run has gone through all five steps and advanced the cursor
C9_Witness ==
    \E r \in Slots :
       /\ run[r].pc = "done"
       /\ Len(run[r].log) = 17
       /\ run[r].log[17] = <<"advance">>

\* C10: the promise fetchAndDisplayStarWarsData returns is never rejected,
\* and is fulfilled when the activation ends.
C10_RunNeverRejects ==
    \A r \in Slots :
       /\ run[r].outcome # "rejected"
       /\ run[r].pc = "done" => run[r].outcome = "fulfilled"

\* one run has ended after a display threw and another after a fetch failed
C10_Witness ==
    /\ \E r \in Slots : run[r].pc = "done" /\ run[r].threwAt > 0
    /\ \E r \in Slots : run[r].pc = "done" /\ run[r].failedAt > 0

\* the step changes request i of slot r (a handler of it runs, or it is issued)
Touches(r, i) ==
    /\ i \in DOMAIN reqs'[r]
    /\ (i \in DOMAIN reqs[r] => reqs'[r][i] # reqs[r][i])

\* C11: a fetchFromApi call that fails leaves the cache as it was: no step
\* of a request that does not resolve its promise (the issue of the GET, a
\* response with any status, a parse failure at the end of the body, an
\* error event, the timeout) changes the keys or the values of the cache,
\* and a promise that was rejected is never resolved afterwards.
C11_FailedCallLeavesCache ==
    [][\A r \in Slots : \A i \in DOMAIN reqs'[r] :
          /\ (Touches(r, i) /\ reqs'[r][i].promise # "resolved") => apiCache' = apiCache
          /\ (i \in DOMAIN reqs[r] /\ reqs[r][i].promise = "rejected") =>
                reqs'[r][i].promise = "rejected"]_vars

\* with the character cached and nothing else, one starships call has
\* failed on a body that does not parse and another on the timeout
C11_Witness ==
    /\ DOMAIN apiCache = {PeoplePath(1)}
    /\ \A error \in {"parse", "timeout"} :
          \E r \in Slots : \E i \in DOMAIN reqs[r] :
             reqs[r][i].promise = "rejected" /\ reqs[r][i].error = error

\* C12: no step decreases apiCallCount, totalDataSize or errorCount, and
\* no step removes a key from the cache (so the number of cache entries
\* never decreases either).
C12_CountersNeverDecrease ==
    [][/\ apiCallCount' >= apiCallCount
       /\ totalDataSize' >= totalDataSize
       /\ errorCount' >= errorCount
       /\ DOMAIN apiCache \subseteq DOMAIN apiCache'
       /\ Cardinality(DOMAIN apiCache') >= Cardinality(DOMAIN apiCache)]_vars

\* two runs have been counted, one has ended in its catch block, and the
\* cache holds at least three entries whose sizes have been added
C12_Witness ==
    /\ apiCallCount = 2
    /\ errorCount > 0
    /\ Cardinality(DOMAIN apiCache) >= 3
    /\ totalDataSize > 0
    /\ \E r \in Slots : run[r].pc = "done" /\ run[r].caught = 1

\* slot r holds the thread in its films step, and "films/" holds an object
\* in the cache that no request of this run has put there: the step is
\* served from the cache
FilmsFromCache(r) ==
    /\ turn = r
    /\ run[r].step = 4
    /\ \A i \in DOMAIN reqs[r] : reqs[r][i].step # 4
    /\ FilmsPath \in DOMAIN apiCache
    /\ apiCache[FilmsPath].t = "object"

\* C13 as stated: with "films/" cached, the call of fetchFromApi("films/")
\* returns the cached object and issues no GET, and neither the call nor the
\* rest of the films step of the run changes totalDataSize.
C13_CachedFilmsNoBytes ==
    [][\A r \in Slots :
          (FilmsFromCache(r) /\ run[r].pc \in {"call", "size", "display"}) =>
             /\ gets' = gets
             /\ totalDataSize' = totalDataSize
             /\ run[r].pc = "call" => run'[r].result = apiCache[FilmsPath]]_vars

\* C13 as amended: with "films/" cached, the call of fetchFromApi("films/")
\* returns the cached object, issues no GET or request and leaves
\* totalDataSize and the cache unchanged; the films step of the run then
\* adds the serialized length of the cached object to totalDataSize.
C13_CachedFilmsNoFetch ==
    [][\A r \in Slots :
          /\ (FilmsFromCache(r) /\ run[r].pc = "call") =>
                /\ gets' = gets /\ reqs' = reqs
                /\ run'[r].result = apiCache[FilmsPath]
                /\ run'[r].pc = "size"
                /\ totalDataSize' = totalDataSize
                /\ apiCache' = apiCache
          /\ (FilmsFromCache(r) /\ run[r].pc = "size") =>
                /\ gets' = gets /\ reqs' = reqs
                /\ totalDataSize' = totalDataSize + StringifyLength(apiCache[FilmsPath])]_vars

\* a run has been handed the cached films and has added their size a
\* second time
C13_Witness ==
    \E r \in Slots :
       /\ FilmsFromCache(r) /\ run[r].pc = "display"
       /\ gets[FilmsPath] = 1
       /\ totalDataSize >= 2 * StringifyLength(apiCache[FilmsPath])

\* the last entry of a log
Last(log) == log[Len(log)]

\* C14: when a fetch of a run has succeeded, from the network or from the
\* cache, the run holds the payload stored under the path it asked for; its
\* next step adds exactly the length of JSON.stringify of that payload to
\* totalDataSize, the step after that is the display of the same payload,
\* and neither issues a fetch; nothing else changes totalDataSize.
C14_SizeThenDisplay ==
    [][/\ \A r \in Slots :
             /\ (run[r].pc # "size" /\ run'[r].pc = "size") =>
                   /\ Last(run'[r].log)[1] = "fetch"
                   /\ run'[r].result = apiCache'[Last(run'[r].log)[3]]
             /\ (turn = r /\ run[r].pc = "size") =>
                   /\ totalDataSize' = totalDataSize + StringifyLength(run[r].result)
                   /\ run'[r].pc = "display"
                   /\ run'[r].result = run[r].result
                   /\ gets' = gets /\ reqs' = reqs
             /\ (turn = r /\ run[r].pc = "display") =>
                   /\ \/ run'[r].log = Append(run[r].log, <<"show", run[r].step>>)
                      \/ run'[r].pc = "catch" /\ run'[r].threwAt = run[r].step
                   /\ gets' = gets /\ reqs' = reqs
       /\ totalDataSize' # totalDataSize =>
             \E r \in Slots : turn = r /\ run[r].pc = "size"]_vars

\* after a run that fetched them from the network, a run has been handed
\* the character and the starships from the cache, has sized both and is
\* about to display the starships
C14_Witness ==
    \E r \in Slots :
       /\ run[r].pc = "display" /\ run[r].step = 2
       /\ reqs[r] = <<>>
       /\ run[r].result = ShipsPage
       /\ totalDataSize >= 2 * (StringifyLength(Luke) + StringifyLength(ShipsPage))

\* the steps of a run whose log has an entry with the given tag
StepsWith(r, tag) == {run[r].log[j][2] : j \in Entries(run[r].log, tag)}

\* C15: at the vehicle step a run with the cursor within the bound calls
\* fetchFromApi for vehicles/<cursor>, and a run whose vehicle fetch has
\* succeeded ends with the cursor advanced, by exactly 1; a run with the
\* cursor beyond the bound goes straight to the statistics and returns with
\* no vehicle fetch, no vehicle output and the cursor as it was.
C15_VehicleStepGuarded ==
    /\ [](\A r \in Slots :
             (run[r].pc = "done" /\ 5 \in StepsWith(r, "size")) =>
                Entries(run[r].log, "advance") # {})
    /\ [][/\ \A r \in Slots :
                /\ (turn = r /\ run[r].pc = "guard") =>
                      IF lastCharacterId <= MAX_VEHICLE_CHARACTER_ID
                      THEN /\ run'[r].pc = "call" /\ run'[r].step = 5
                           /\ lastCharacterId' = lastCharacterId
                      ELSE /\ run'[r].pc = "stats"
                           /\ lastCharacterId' = lastCharacterId
                           /\ 5 \notin StepsWith(r, "fetch") \cup StepsWith(r, "show")
                /\ (turn = r /\ run[r].pc = "call" /\ run[r].step = 5) =>
                      Last(run'[r].log) = <<"fetch", 5, VehiclePath(lastCharacterId)>>
                /\ (turn = r /\ run[r].pc = "stats") =>
                      /\ run'[r].pc = "done" /\ run'[r].log = run[r].log
                      /\ gets' = gets /\ lastCharacterId' = lastCharacterId
                /\ (turn = r /\ run[r].pc = "advance") =>
                      lastCharacterId' = lastCharacterId + 1
          /\ lastCharacterId' # lastCharacterId =>
                \E r \in Slots : turn = r /\ run[r].pc = "advance"]_vars

\* C16: a call of fetchFromApi issues at most one GET: the requests of a
\* run are for different steps, one per call at most, and a request is
\* added (and a GET counted) only by a step that calls fetchFromApi, one at
\* a time; a request one of whose handlers has failed has its promise
\* rejected, and no handler of a request issues a request.
C16_NoRetry ==
    /\ [](\A r \in Slots :
             /\ \A i, j \in DOMAIN reqs[r] : reqs[r][i].step = reqs[r][j].step => i = j
             /\ Len(reqs[r]) <= Cardinality(Entries(run[r].log, "fetch"))
             /\ \A i \in DOMAIN reqs[r] :
                   reqs[r][i].errs > 0 => reqs[r][i].promise = "rejected")
    /\ [][\A r \in Slots :
             /\ Len(reqs'[r]) # Len(reqs[r]) =>
                   /\ Calls(r)
                   /\ Len(reqs'[r]) = Len(reqs[r]) + 1
                   /\ gets' = [gets EXCEPT ![CalledPath(r)] = @ + 1]
             /\ ~Calls(r) => (Len(reqs'[r]) = Len(reqs[r]) /\ (turn = r => gets' = gets))
             /\ turn = 0 => gets' = gets]_vars

\* a run has ended on its starships fetch, which failed after one GET,
\* while the other run, started later, has issued its own GET for the path
C16_Witness ==
    \E r \in Slots :
       /\ run[r].pc = "done" /\ run[r].failedAt = 2
       /\ Len(reqs[r]) = 2 /\ reqs[r][2].errs > 0
       /\ gets[StarshipsPath] = 2

\* no call is outstanding and no run is in progress
Quiescent == \A r \in Slots : Pending(r) = {} /\ ~InProgress(r)

\* C17: every fetchFromApi call settles and every run ends: whatever is
\* outstanding or in progress, a state follows in which no call is
\* outstanding and no run in progress; the promise of a call settles once,
\* state and Error; the timeout callback on a call not yet settled aborts
\* the request and rejects the call with a timeout Error, and a request
\* aborted before any response stays so rejected.
C17_EveryCallSettles ==
    /\ []<>Quiescent
    /\ [](\A r \in Slots : \A i \in DOMAIN reqs[r] :
             reqs[r][i].st = "hangup" =>
                reqs[r][i].promise = "rejected" /\ reqs[r][i].error = "timeout")
    /\ [][\A r \in Slots : \A i \in DOMAIN reqs[r] :
             /\ reqs[r][i].promise # "pending" =>
                   /\ reqs'[r][i].promise = reqs[r][i].promise
                   /\ reqs'[r][i].error = reqs[r][i].error
             /\ (Timeout(r, i) /\ reqs[r][i].promise = "pending") =>
                   /\ reqs'[r][i].st \in {"hangup", "closed"}
                   /\ reqs'[r][i].promise = "rejected"
                   /\ reqs'[r][i].error = "timeout"
                   /\ run'[r].pc = "catch"]_vars

\* a run has ended after the timeout fired on its planets request while
\* the body was arriving, and the run after it has ended too
C17_Witness ==
    /\ \A r \in Slots : run[r].pc = "done"
    /\ \E r \in Slots :
          /\ Len(reqs[r]) = 3
          /\ reqs[r][3].error = "timeout" /\ reqs[r][3].st = "closed"
          /\ run[r].failedAt = 3

\* the serialized sizes of the payloads a run was handed in the given steps
\* (its k-th fetch to return is that of step k), summed
RECURSIVE SizeOfSteps(_, _)
SizeOfSteps(r, steps) ==
    IF steps = {} THEN 0
    ELSE LET s == CHOOSE x \in steps : TRUE
         IN  StringifyLength(run[r].got[s]) + SizeOfSteps(r, steps \ {s})

RECURSIVE SizeOverRuns(_, _)
SizeOverRuns(rs, tag) ==
    IF rs = {} THEN 0
    ELSE LET r == CHOOSE x \in rs : TRUE
         IN  SizeOfSteps(r, StepsWith(r, tag)) + SizeOverRuns(rs \ {r}, tag)

\* the runs that have been started and have counted themselves
Started == {r \in Slots : run[r].pc \notin {"idle", "start"}}

\* C18: however the runs interleave, apiCallCount is the number of runs
\* started, and whenever no run is between the sizing and the display of a
\* payload, totalDataSize is the sum of the serialized sizes of the payloads
\* of the steps that have completed (fetched, sized and displayed) in all
\* the runs.
C18_CountersAddUp ==
    /\ apiCallCount = Cardinality(Started)
    /\ (\A r \in Slots : run[r].pc # "display") =>
          totalDataSize = SizeOverRuns(Slots, "show")

\* The same with the steps whose fetch succeeded and whose payload was
\* sized, displayed or not: this is what the counters add up to.
CountersAddUpOverSizedSteps ==
    /\ apiCallCount = Cardinality(Started)
    /\ totalDataSize = SizeOverRuns(Slots, "size")

\* C19: a run that has ended and none of whose fetches failed has gone
\* through every step: it has displayed the character, the starships, the
\* planets and the films; it has displayed the vehicle and advanced the
\* cursor, unless the cursor was beyond the bound (where it then still is)
\* and it fetched no vehicle; and it has added nothing to errorCount.
C19_EndsEarlyOnlyOnFetchError ==
    \A r \in Slots :
       (/\ run[r].pc = "done"
        /\ run[r].failedAt = 0
        /\ \A i \in DOMAIN reqs[r] : reqs[r][i].promise = "resolved") =>
          /\ {1, 2, 3, 4} \subseteq StepsWith(r, "show")
          /\ \/ 5 \in StepsWith(r, "show") /\ Entries(run[r].log, "advance") # {}
             \/ 5 \notin StepsWith(r, "fetch") /\ lastCharacterId > MAX_VEHICLE_CHARACTER_ID
          /\ RunErrors(r) = 0

\* C20: the display of a payload leaves the cache as it was, keys, values
\* and the order of the elements inside each value.
C20_DisplayLeavesCache ==
    [][\A r \in Slots :
          (turn = r /\ run[r].pc = "display") => apiCache' = apiCache]_vars

\* the runs whose display of a step has returned last
JustShown(step) ==
    {r \in Slots : run[r].log # <<>> /\ Last(run[r].log) = <<"show", step>>}

\* a planet the planets display is to list: its population is one of the
\* numerals above 1,000,000,000 and its diameter one of those above 10,000
ToBeListed(planet) ==
    /\ \E n \in Numerals :
          n > 1000000000 /\ Prop(planet, "population") = JStr(ToString(n))
    /\ \E n \in Numerals :
          n > 10000 /\ Prop(planet, "diameter") = JStr(ToString(n))

\* C21: the planets display lists, in the order of the page, exactly the
\* planets whose population is not "unknown" and is a number above
\* 1,000,000,000 and whose diameter is not "unknown" and is a number above
\* 10,000; it lists no planet of population 1000000000 and no planet of
\* population "unknown", whatever the diameter.
C21_LargePlanetsListed ==
    \A r \in JustShown(3) :
       LET planets == Prop(run[r].got[3], "results").v
           listed == run[r].out
       IN  /\ listed = SelectSeq(planets, ToBeListed)
           /\ \A i \in DOMAIN listed :
                 Prop(listed[i], "population") \notin {JStr("unknown"), JStr("1000000000")}
           /\ \A i \in DOMAIN listed : Prop(listed[i], "diameter") # JStr("unknown")

\* the display of a page of a planet of population 1000000000 and one of
\* population 1000000001, both of diameter 10001, has listed the second only
C21_Witness ==
    \E r \in JustShown(3) :
       /\ Prop(run[r].got[3], "results").v
             = <<PlanetOf("1000000000", "10001"), PlanetOf("1000000001", "10001")>>
       /\ run[r].out = <<PlanetOf("1000000001", "10001")>>

\* the display of a page of a planet of unknown population has listed nothing
C21_WitnessUnknown ==
    \E r \in JustShown(3) :
       /\ Prop(run[r].got[3], "results").v = <<PlanetOf("unknown", "10001")>>
       /\ run[r].out = <<>>

\* the place of a release date of ReleaseDates among them, in the calendar
Chronology(date) ==
    CASE date = JStr("1977-05-25") -> 1
      [] date = JStr("1980-05-17") -> 2
      [] date = JStr("1983-05-25") -> 3

\* the place in a page of a film of it (the films of a page differ in title)
PlaceIn(films, film) == CHOOSE k \in DOMAIN films : films[k] = film

\* C22: the films display prints every fetched film once, in non-decreasing
\* order of release date, and films of the same release date in the order
\* they were fetched in.
C22_FilmsInReleaseOrder ==
    \A r \in JustShown(4) :
       LET fetched == Prop(run[r].got[4], "results").v
           printed == run[r].out
       IN  /\ Len(printed) = Len(fetched)
           /\ {printed[i] : i \in DOMAIN printed} = {fetched[i] : i \in DOMAIN fetched}
           /\ \A i, j \in DOMAIN printed :
                 i < j =>
                    LET a == Chronology(Prop(printed[i], "release_date"))
                        b == Chronology(Prop(printed[j], "release_date"))
                    IN  /\ a <= b
                        /\ a = b => PlaceIn(fetched, printed[i]) < PlaceIn(fetched, printed[j])

\* the display of the films of 1980, 1977 and 1980 has printed the second,
\* then the first, then the third
C22_Witness ==
    \E r \in JustShown(4) :
       /\ Prop(run[r].got[4], "results").v
             = <<FilmOf(1, "1980-05-17"), FilmOf(2, "1977-05-25"), FilmOf(3, "1980-05-17")>>
       /\ run[r].out
             = <<FilmOf(2, "1977-05-25"), FilmOf(1, "1980-05-17"), FilmOf(3, "1980-05-17")>>

\* the acknowledgment of a GET /api
Acknowledgment ==
    [status |-> 200, type |-> "text/plain",
     body |-> "Fetching Star Wars data. Check the console."]

\* the runs that have reached their first await
Suspended == {r \in Slots : \E j \in DOMAIN run[r].log : run[r].log[j][1] = "fetch"}

\* C23: a GET /api starts one run, and no run starts otherwise; the request
\* is answered once, with status 200 and the acknowledgment, as soon as its
\* run has reached its first await, so while the run is still in progress;
\* the response is the same for every request, whether its run ends well or
\* not, and is never changed.
C23_AcknowledgedAtOnce ==
    /\ [](\A r \in Slots :
            /\ r \in Suspended <=> run[r].reply # <<>>
            /\ run[r].reply \in {<<>>, <<Acknowledgment>>})
    /\ [][/\ served' # served =>
               /\ served' = served + 1
               /\ \E r \in Slots :
                     /\ run[r].pc = "idle" /\ run'[r].pc = "start"
                     /\ \A o \in Slots \ {r} : run'[o] = run[o]
          /\ \A r \in Slots :
                /\ run[r].pc = "idle" /\ run'[r].pc # "idle" => served' = served + 1
                /\ run[r].reply # <<>> => run'[r].reply = run[r].reply]_vars

\* a run that ended in the catch block and a run that completed, both
\* acknowledged alike
C23_Witness ==
    \E a, b \in Slots :
       /\ run[a].pc = "done" /\ run[a].caught > 0
       /\ run[b].pc = "done" /\ run[b].caught = 0
       /\ run[a].reply = <<Acknowledgment>> /\ run[b].reply = run[a].reply

\* a request answered while its run awaits its first fetch
C23_WitnessPending ==
    \E r \in Slots :
       /\ run[r].pc = "await" /\ Len(reqs[r]) = 1 /\ reqs[r][1].promise = "pending"
       /\ run[r].reply = <<Acknowledgment>>

\* the runs of the process before this behaviour (all of them one at a time)
EarlierRuns == apiCallCount - Cardinality(Started)

\* no fetch of any run has failed
EveryFetchSucceeds ==
    \A r \in Slots : \A i \in DOMAIN reqs[r] : reqs[r][i].promise # "rejected"

\* C24: as long as runs execute one at a time and every fetch succeeds, run
\* number k fetches people/min(k, 5) in its character step; up to k = 4 it
\* fetches vehicles/k in its vehicle step and from k = 5 on it has no vehicle
\* step; once run k has ended the cursor is min(k + 1, 5).
C24_SequentialRuns ==
    (~overlapped /\ EveryFetchSucceeds) =>
       \A r \in Started :
          LET k == EarlierRuns + r
              log == run[r].log
          IN  /\ \A j \in Entries(log, "fetch") :
                    /\ log[j][2] = 1 => log[j][3] = PeoplePath(Min(k, 5))
                    /\ log[j][2] = 5 => k <= 4 /\ log[j][3] = VehiclePath(k)
              /\ run[r].pc = "done" =>
                    /\ k <= 4 => 5 \in StepsWith(r, "fetch")
                    /\ served = r => lastCharacterId = Min(k + 1, 5)

\* the same for runs whose displays all return
C24_SequentialRunsDisplayed ==
    (\A r \in Slots : run[r].threwAt = 0) => C24_SequentialRuns

\* C25: the character step and the vehicle step of a run ask for the same
\* id: a run that has called fetchFromApi for people/i and for vehicles/j has
\* i = j, however the runs interleave.
C25_SameCursorInRun ==
    \A r \in Slots :
       LET log == run[r].log
       IN  \A a, b \in Entries(log, "fetch") :
              (log[a][2] = 1 /\ log[b][2] = 5) =>
                 \E id \in 1..MaxId :
                    log[a][3] = PeoplePath(id) /\ log[b][3] = VehiclePath(id)

\* the same for runs none of which was started while another was in progress
C25_SameCursorInRunAlone == ~overlapped => C25_SameCursorInRun

\* the runs that have left the try block for the catch block
Aborted == {r \in Slots : run[r].pc = "catch" \/ run[r].caught > 0}

\* the cursor a run started with: the id of the character it asked for
StartId(r) ==
    CHOOSE id \in 1..MaxId :
       \E j \in Entries(run[r].log, "fetch") :
          run[r].log[j][2] = 1 /\ run[r].log[j][3] = PeoplePath(id)

\* C26: a run that aborts has not advanced the cursor, and what its steps
\* did before stays: every path one of its fetches stored is a key of the
\* cache, totalDataSize is still the sum of all the sizes added, and neither
\* the step into the catch block nor the catch block touches the cursor,
\* totalDataSize or the keys of the cache; when no run was started while
\* another was in progress, the cursor after the last run, if it aborted, is
\* the cursor that run started with.
C26_AbortKeepsCursorAndEffects ==
    /\ [](\A r \in Aborted :
            /\ Entries(run[r].log, "advance") = {}
            /\ \A i \in DOMAIN reqs[r] :
                  reqs[r][i].promise = "resolved" => reqs[r][i].path \in DOMAIN apiCache
            /\ totalDataSize = SizeOverRuns(Slots, "size")
            /\ (~overlapped /\ served = r) => lastCharacterId = StartId(r))
    /\ [][\A r \in Slots :
             (run'[r].pc = "catch" \/ run[r].pc = "catch") =>
                /\ lastCharacterId' = lastCharacterId
                /\ totalDataSize' = totalDataSize
                /\ DOMAIN apiCache' = DOMAIN apiCache]_vars

\* after a run that completed, a second run, alone, has aborted in its
\* planets step or later: the cursor is the 2 it started with, people/2 is
\* cached and the sizes of both runs are counted
C26_Witness ==
    /\ ~overlapped
    /\ run[1].pc = "done" /\ run[1].caught = 0
    /\ run[2].pc = "done" /\ run[2].caught = 1
    /\ Cardinality(Entries(run[2].log, "size")) >= 2
    /\ lastCharacterId = 2 /\ StartId(2) = 2
    /\ PeoplePath(2) \in DOMAIN apiCache
    /\ totalDataSize > SizeOfSteps(1, StepsWith(1, "size"))

\* the twelve paths: people/1..5, vehicles/1..4 and the three pages
TwelvePaths ==
    {PeoplePath(i) : i \in 1..5} \cup {VehiclePath(i) : i \in 1..4}
       \cup {StarshipsPath, PlanetsPath, FilmsPath}

\* C27: in every reachable state the keys of the cache are among the twelve
\* paths people/1..people/5, vehicles/1..vehicles/4, starships/?page=1,
\* planets/?page=1 and films/, so the cache holds at most 12 entries.
C27_CacheKeysAmongTwelve ==
    /\ DOMAIN apiCache \subseteq TwelvePaths
    /\ Cardinality(DOMAIN apiCache) <= 12

\* the same for runs none of which was started while another was in progress
C27_CacheKeysAmongTwelveAlone == ~overlapped => C27_CacheKeysAmongTwelve

====
